---- MODULE Spec2Model ----
(***************************************************************************)
(* The /chat query-resolution pipeline of main.py: cache lookup (Redis),   *)
(* inference fallback (Groq), cache write-through, durable logging         *)
(* (Postgres), and the exception handler that wraps them.                  *)
(*                                                                         *)
(* chat_endpoint is an `async def` whose Redis and Groq calls are plain    *)
(* synchronous calls; its only `await` is database.execute.  So a request  *)
(* runs from its first line up to the INSERT without yielding (ChatSync),  *)
(* is suspended while the database works (LogInsert / LogFail), and        *)
(* resumes to build the response (ChatReturn).                             *)
(***************************************************************************)
EXTENDS Integers, Sequences, FiniteSets, TLC

\* ---------------------------------------------------------------- bounds
MaxReqs == 2          \* /chat requests issued in one behaviour
MaxTicks == 2         \* clock advances of ClockStep seconds
MaxPrior == 11        \* rows the interactions table holds from earlier runs

\* ------------------------------------------------------- program constants
TTL == 3600           \* redis_client.setex(query.text, 3600, response_text)
Limit == 10           \* SELECT ... ORDER BY id DESC LIMIT 10

ClockStep == TTL \div 2

CacheTag == "cache (Redis)"
LlmTag == "llm (Groq)"
UnknownTag == "unknown"

\* ------------------------------------------------------------ input sets
Reqs == 1..MaxReqs
Users == {1, 2}
Texts == {"hi", "Hi"}
Queries == { [user_id |-> 1, text |-> "hi"], [user_id |-> 2, text |-> "Hi"] }
\* message.content of a completion; the empty string is a possible content
Contents == {"", "Hello there"}

\* Exceptions the three backends can raise, as [type, msg].
RedisErrors == {[type |-> "ConnectionError", msg |-> "Error 111 connecting to redis:6379."]}
GroqErrors ==
  { [type |-> "APIError", msg |-> "Rate limit reached for model llama-3.3-70b-versatile"],
    [type |-> "APIError", msg |-> "Invalid API Key gsk_live"] }
NotConnected == [type |-> "AssertionError", msg |-> "DatabaseBackend is not running"]
NoTable == [type |-> "UndefinedTableError", msg |-> "relation interactions does not exist"]
ConnectionLost == [type |-> "InterfaceError", msg |-> "connection to db:5432 is closed"]
NotConfigured == [type |-> "HTTPException", msg |-> "LLM service not configured."]

\* Optional values: <<>> is None, <<v>> is the value v.
None == <<>>
Some(v) == <<v>>

VARIABLES
  phase,           \* "boot" before the startup event has run, then "serving"
  redis_client,    \* TRUE: a client object; FALSE: None
  redisReachable,  \* the Redis server answers (environment)
  groq_client,     \* TRUE: a client object; FALSE: None (no GROQ_API_KEY)
  dbConnected,     \* database.connect() succeeded
  tableExists,     \* the interactions table exists
  cache,           \* Redis: key -> None | Some([val, exp])
  now,             \* the clock, in seconds
  log,             \* rows of interactions, in insertion order
  req,             \* the /chat requests: locals and position of each
  analytics        \* the response of the latest GET /analytics

vars == <<phase, redis_client, redisReachable, groq_client, dbConnected,
          tableExists, cache, now, log, req, analytics>>

\* ------------------------------------------------------------ data model
\* class UserQuery(BaseModel)
UserQuery == Queries

NoQuery == [user_id |-> 0, text |-> ""]
NoEnvelope == [response |-> "", source |-> ""]

\* class AgentResponse(BaseModel); latency_seconds is not modelled
AgentResponse(response, source) == [response |-> response, source |-> source]

\* A request before it is received: the locals of chat_endpoint at lines 107-109
\* (source = "unknown", response_text = "") plus bookkeeping.
\*   held     what Redis holds under query.text when the request runs
\*   cached   what redis_client.get returned (cached_response)
\*   trace    the backend calls the request has made, in order
\*   exc      the exception that reached the handler's except clause
IdleReq ==
  [ pc |-> "idle", query |-> NoQuery, source |-> UnknownTag, response_text |-> "",
    held |-> None, cached |-> None, llm |-> None, trace |-> <<>>, exc |-> None,
    outcome |-> "none", envelope |-> NoEnvelope, status |-> 0, detail |-> "" ]

\* Python truthiness of a str: `if s:` / `if not s:`
Truthy(s) == s # ""

\* Python truthiness of an Optional[str]: None and "" are both false
TruthyOpt(o) == o # None /\ Truthy(o[1])

\* str(e): the message of an ordinary exception; Starlette renders an
\* HTTPException as "<status_code>: <detail>".
StrExc(e) == IF e.type = "HTTPException" THEN "500: " \o e.msg ELSE e.msg

\* ------------------------------------------------------------ cache port
\* redis GET: the value under the key unless absent or expired
RedisGet(k) ==
  IF cache[k] # None /\ now < cache[k][1].exp THEN Some(cache[k][1].val) ELSE None

\* redis SETEX key seconds value
RedisSetex(c, k, seconds, v) == [c EXCEPT ![k] = Some([val |-> v, exp |-> now + seconds])]

\* The outcomes of one Redis call: None (it answers) or the error it raises.
\* An unreachable server never answers.
RedisOutcomes ==
  IF redisReachable THEN {None} \cup {Some(e) : e \in RedisErrors}
  ELSE {Some(e) : e \in RedisErrors}

\* The outcomes of one completion call: None or the error it raises.
GroqOutcomes == {None} \cup {Some(e) : e \in GroqErrors}

\* str.lower() on the texts of the model
Lower(t) == IF t = "Hi" THEN "hi" ELSE t

\* The lookup with the key normalised: redis_client.get(query.text.lower())
CacheLookup_Normalised(f, getErr) ==
  IF ~redis_client THEN f
  ELSE IF getErr # None
    THEN [f EXCEPT !.trace = Append(@, "get"), !.exc = getErr]
  ELSE LET cached_response == RedisGet(Lower(f.query.text)) IN
    IF TruthyOpt(cached_response)
    THEN [f EXCEPT !.trace = Append(@, "get"), !.cached = cached_response,
                   !.source = CacheTag, !.response_text = cached_response[1]]
    ELSE [f EXCEPT !.trace = Append(@, "get"), !.cached = cached_response]

\* ------------------------------------------------- chat_endpoint, lines 111-146
\* 1. CACHE LAYER: lines 113-118
CacheLookup(f, getErr) ==
  IF ~redis_client THEN f
  ELSE IF getErr # None
    THEN [f EXCEPT !.trace = Append(@, "get"), !.exc = getErr]
  ELSE LET cached_response == RedisGet(f.query.text) IN
    IF TruthyOpt(cached_response)
    THEN [f EXCEPT !.trace = Append(@, "get"), !.cached = cached_response,
                   !.source = CacheTag, !.response_text = cached_response[1]]
    ELSE [f EXCEPT !.trace = Append(@, "get"), !.cached = cached_response]

\* Infer with one retry: a completion call that raises is made again
Infer_Retries(f, content, inferErr) ==
  IF f.exc # None THEN f
  ELSE IF Truthy(f.response_text) THEN f
  ELSE IF ~groq_client THEN [f EXCEPT !.exc = Some(NotConfigured)]
  ELSE IF inferErr # None
    THEN [f EXCEPT !.source = LlmTag, !.trace = Append(Append(@, "infer"), "infer"),
                   !.llm = Some(content), !.response_text = content]
  ELSE [f EXCEPT !.source = LlmTag, !.trace = Append(@, "infer"),
                 !.llm = Some(content), !.response_text = content]

\* Infer with line 121 testing `cached_response is None`: any cached value,
\* empty or not, skips the inference call
Infer_SkipsWhenCached(f, content, inferErr) ==
  IF f.exc # None THEN f
  ELSE IF f.cached # None THEN f
  ELSE IF ~groq_client THEN [f EXCEPT !.exc = Some(NotConfigured)]
  ELSE IF inferErr # None
    THEN [f EXCEPT !.source = LlmTag, !.trace = Append(@, "infer"), !.exc = inferErr]
  ELSE [f EXCEPT !.source = LlmTag, !.trace = Append(@, "infer"),
                 !.llm = Some(content), !.response_text = content]

\* Infer with line 125 left out: source keeps the value it had
Infer_KeepsSource(f, content, inferErr) ==
  IF f.exc # None THEN f
  ELSE IF Truthy(f.response_text) THEN f
  ELSE IF ~groq_client THEN [f EXCEPT !.exc = Some(NotConfigured)]
  ELSE IF inferErr # None
    THEN [f EXCEPT !.trace = Append(@, "infer"), !.exc = inferErr]
  ELSE [f EXCEPT !.trace = Append(@, "infer"),
                 !.llm = Some(content), !.response_text = content]

\* Infer with the guard of lines 122-123 left out: an unconfigured backend
\* yields no text and the request goes on
Infer_NoConfigCheck(f, content, inferErr) ==
  IF f.exc # None THEN f
  ELSE IF Truthy(f.response_text) THEN f
  ELSE IF ~groq_client THEN [f EXCEPT !.source = LlmTag]
  ELSE IF inferErr # None
    THEN [f EXCEPT !.source = LlmTag, !.trace = Append(@, "infer"), !.exc = inferErr]
  ELSE [f EXCEPT !.source = LlmTag, !.trace = Append(@, "infer"),
                 !.llm = Some(content), !.response_text = content]

\* 2. INFERENCE LAYER: lines 121-142
Infer(f, content, inferErr) ==
  IF f.exc # None THEN f
  ELSE IF Truthy(f.response_text) THEN f
  ELSE IF ~groq_client THEN [f EXCEPT !.exc = Some(NotConfigured)]
  ELSE IF inferErr # None
    THEN [f EXCEPT !.source = LlmTag, !.trace = Append(@, "infer"), !.exc = inferErr]
  ELSE [f EXCEPT !.source = LlmTag, !.trace = Append(@, "infer"),
                 !.llm = Some(content), !.response_text = content]

\* Lines 144-146 are reached: the inference call of this request returned.
ReachesStore(f) == f.exc = None /\ f.llm # None

\* Write to cache: lines 144-146, the request's side
CacheStore(f, setErr) ==
  IF ~ReachesStore(f) \/ ~redis_client THEN f
  ELSE IF setErr # None
    THEN [f EXCEPT !.trace = Append(@, "setex"), !.exc = setErr]
  ELSE [f EXCEPT !.trace = Append(@, "setex")]

\* The write-through made on hits too: a hit rewrites its entry with a fresh
\* expiry
CacheAfterStore_RefreshOnHit(f, setErr) ==
  IF f.exc = None /\ redis_client /\ setErr = None /\ Truthy(f.response_text)
  THEN RedisSetex(cache, f.query.text, TTL, f.response_text)
  ELSE IF f.exc = None /\ f.llm # None /\ redis_client /\ setErr = None
  THEN RedisSetex(cache, f.query.text, TTL, f.response_text)
  ELSE cache

\* The write-through with the SETEX left out
CacheAfterStore_Unwritten(f, setErr) == cache

\* Write to cache: lines 144-146, Redis's side
CacheAfterStore(f, setErr) ==
  IF ReachesStore(f) /\ redis_client /\ setErr = None
  THEN RedisSetex(cache, f.query.text, TTL, f.response_text)
  ELSE cache

\* except Exception as e: lines 168-171
ExceptHandler(f) ==
  [f EXCEPT !.pc = "done", !.outcome = "error", !.status = 500,
            !.detail = StrExc(f.exc[1])]

\* return {...}: lines 160-166
ReturnEnvelope(f) ==
  [f EXCEPT !.pc = "done", !.outcome = "envelope",
            !.envelope = AgentResponse(f.response_text, f.source)]

\* The row with :inp and :resp bound the wrong way round
InteractionRecord_Swapped(f, r) ==
  [ id |-> Len(log) + 1, user_id |-> f.query.user_id, input_text |-> f.response_text,
    ai_response |-> f.query.text, source |-> f.source, req |-> r ]

\* The row of the INSERT at lines 150-158; id is the SERIAL key, req records
\* which request wrote it.
InteractionRecord(f, r) ==
  [ id |-> Len(log) + 1, user_id |-> f.query.user_id, input_text |-> f.query.text,
    ai_response |-> f.response_text, source |-> f.source, req |-> r ]

\* What database.execute raises when it fails: the database was never
\* connected, the table is missing, or the connection broke.
DbError ==
  IF ~dbConnected THEN NotConnected
  ELSE IF ~tableExists THEN NoTable
  ELSE ConnectionLost

\* ------------------------------------------------------- /analytics
\* No GET /analytics has been answered yet.  `at` is the number of rows the
\* table held when the rows of a response were read.
NoAnalytics == [status |-> 0, rows |-> <<>>, detail |-> "", at |-> 0]

\* The ids of the n rows with the largest ids among S, largest first
RECURSIVE TopIds(_, _)
TopIds(S, n) ==
  IF n = 0 \/ S = {} THEN <<>>
  ELSE LET m == CHOOSE x \in S : \A y \in S : y <= x
       IN <<m>> \o TopIds(S \ {m}, n - 1)

\* The ids of the n rows with the smallest ids among S, smallest first
RECURSIVE BottomIds(_, _)
BottomIds(S, n) ==
  IF n = 0 \/ S = {} THEN <<>>
  ELSE LET m == CHOOSE x \in S : \A y \in S : x <= y
       IN <<m>> \o BottomIds(S \ {m}, n - 1)

RowWithId(rows, id) == rows[CHOOSE i \in DOMAIN rows : rows[i].id = id]

\* The query with ORDER BY id ASC
SelectRecent_Ascending(rows) ==
  LET top == BottomIds({rows[i].id : i \in DOMAIN rows}, Limit)
  IN [i \in 1..Len(top) |-> RowWithId(rows, top[i])]

\* SELECT * FROM interactions ORDER BY id DESC LIMIT 10: line 178
SelectRecent(rows) ==
  LET top == TopIds({rows[i].id : i \in DOMAIN rows}, Limit)
  IN [i \in 1..Len(top) |-> RowWithId(rows, top[i])]

\* ----------------------------------------------------------------- state
InitCaches ==
  { [k \in Texts |-> None] } \cup
  { [k \in Texts |-> IF k = t THEN Some([val |-> v, exp |-> TTL]) ELSE None] :
      t \in {"hi"}, v \in Contents }

\* The module-level initialisation, lines 31-47.  redis.Redis.from_url builds
\* a client without connecting, so the except clause of lines 37-39 (and
\* redis_client = None) is reached only when from_url itself raises, on a
\* malformed REDIS_URL; with a well-formed URL and an unreachable server
\* redis_client is a client whose every call raises.  groq_client is None when
\* GROQ_API_KEY is unset.  Redis may hold an entry left by an earlier run.
Init ==
  /\ phase = "boot"
  /\ redis_client \in BOOLEAN
  /\ redisReachable \in (IF redis_client THEN BOOLEAN ELSE {FALSE})
  /\ groq_client \in BOOLEAN
  /\ dbConnected = FALSE
  /\ tableExists = FALSE
  /\ cache \in InitCaches
  /\ now = 0
  /\ log = <<>>
  /\ req = [r \in Reqs |-> IdleReq]
  /\ analytics = NoAnalytics

\* async def startup(): lines 62-86.  The except clause only logs, so the
\* service goes on to serve whether or not connect and CREATE TABLE worked.
Startup ==
  /\ phase = "boot"
  /\ \E connectOk \in BOOLEAN, createOk \in BOOLEAN :
       /\ dbConnected' = connectOk
       /\ tableExists' = (tableExists \/ (connectOk /\ createOk))
  /\ phase' = "serving"
  /\ UNCHANGED <<analytics, redis_client, redisReachable, groq_client, cache, now, log, req>>

\* chat_endpoint from line 107 to the await at line 150, or to the except
\* clause if a call raised.  Requests are received in the order of Reqs.
ChatSync(r) ==
  /\ phase = "serving"
  /\ req[r].pc = "idle"
  /\ \A p \in Reqs : p < r => req[p].pc # "idle"
  /\ \E query \in UserQuery, getErr \in RedisOutcomes, content \in Contents,
        inferErr \in GroqOutcomes, setErr \in RedisOutcomes :
       LET f0 == [IdleReq EXCEPT !.query = query, !.held = RedisGet(query.text)]
           f1 == CacheLookup(f0, getErr)
           f2 == Infer(f1, content, inferErr)
           f3 == CacheStore(f2, setErr)
       IN /\ cache' = CacheAfterStore(f2, setErr)
          /\ req' = [req EXCEPT ![r] =
                       IF f3.exc # None THEN ExceptHandler(f3)
                       ELSE [f3 EXCEPT !.pc = "await_log"]]
  /\ UNCHANGED <<analytics, phase, redis_client, redisReachable, groq_client, dbConnected,
                 tableExists, now, log>>

\* await database.execute(INSERT ...): lines 150-158, the row is written
LogInsert(r) ==
  /\ req[r].pc = "await_log"
  /\ dbConnected /\ tableExists
  /\ log' = Append(log, InteractionRecord(req[r], r))
  /\ req' = [req EXCEPT ![r] = [@ EXCEPT !.pc = "logged", !.trace = Append(@, "insert")]]
  /\ UNCHANGED <<analytics, phase, redis_client, redisReachable, groq_client, dbConnected,
                 tableExists, cache, now>>

\* A failed INSERT swallowed: the request returns its envelope all the same
LogFail_Swallowed(r) ==
  /\ req[r].pc = "await_log"
  /\ req' = [req EXCEPT ![r] = ReturnEnvelope([@ EXCEPT !.trace = Append(@, "insert")])]
  /\ UNCHANGED <<analytics, phase, redis_client, redisReachable, groq_client, dbConnected,
                 tableExists, cache, now, log>>

\* await database.execute(INSERT ...) raises: no row, then lines 168-171
LogFail(r) ==
  /\ req[r].pc = "await_log"
  /\ req' = [req EXCEPT ![r] =
               ExceptHandler([@ EXCEPT !.trace = Append(@, "insert"),
                                       !.exc = Some(DbError)])]
  /\ UNCHANGED <<analytics, phase, redis_client, redisReachable, groq_client, dbConnected,
                 tableExists, cache, now, log>>

\* The request resumes after the INSERT: lines 160-166
ChatReturn(r) ==
  /\ req[r].pc = "logged"
  /\ req' = [req EXCEPT ![r] = ReturnEnvelope(@)]
  /\ UNCHANGED <<analytics, phase, redis_client, redisReachable, groq_client, dbConnected,
                 tableExists, cache, now, log>>

\* Time passes; Redis drops the entries whose expiry has been reached.
Tick ==
  /\ now < MaxTicks * ClockStep
  /\ now' = now + ClockStep
  /\ cache' = [k \in Texts |->
                 IF cache[k] # None /\ cache[k][1].exp <= now' THEN None ELSE cache[k]]
  /\ UNCHANGED <<analytics, phase, redis_client, redisReachable, groq_client, dbConnected,
                 tableExists, log, req>>

\* async def get_analytics(): lines 174-178, fetch_all returns
Analytics ==
  /\ phase = "serving"
  /\ dbConnected /\ tableExists
  /\ analytics' = [status |-> 200, rows |-> SelectRecent(log), detail |-> "",
                    at |-> Len(log)]
  /\ UNCHANGED <<phase, redis_client, redisReachable, groq_client, dbConnected,
                 tableExists, cache, now, log, req>>

\* async def get_analytics(): fetch_all raises, lines 179-180
AnalyticsFail ==
  /\ phase = "serving"
  /\ analytics' = [status |-> 500, rows |-> <<>>, detail |-> StrExc(DbError),
                    at |-> 0]
  /\ UNCHANGED <<phase, redis_client, redisReachable, groq_client, dbConnected,
                 tableExists, cache, now, log, req>>

Next ==
  \/ Startup
  \/ \E r \in Reqs : ChatSync(r)
  \/ \E r \in Reqs : LogInsert(r)
  \/ \E r \in Reqs : LogFail(r)
  \/ \E r \in Reqs : ChatReturn(r)
  \/ Tick

Spec == Init /\ [][Next]_vars

\* ---------------------------------------------- the service with /analytics
\* A row written by an earlier run of the service
PriorRow(i) ==
  [ id |-> i, user_id |-> 1, input_text |-> "hi", ai_response |-> "Hello there",
    source |-> LlmTag, req |-> 0 ]

\* The sizes of the table at startup: fresh, or around the LIMIT of /analytics
PriorCounts == {0} \cup ((MaxPrior - 2)..MaxPrior)

\* The service started on a table that may hold rows of earlier runs (CREATE
\* TABLE IF NOT EXISTS keeps them), with no cache client and an inference
\* client.
InitAnalytics ==
  /\ phase = "boot"
  /\ redis_client = FALSE
  /\ redisReachable = FALSE
  /\ groq_client = TRUE
  /\ dbConnected = FALSE
  /\ \E n \in PriorCounts :
       /\ log = [i \in 1..n |-> PriorRow(i)]
       /\ tableExists = (n > 0)
  /\ cache = [k \in Texts |-> None]
  /\ now = 0
  /\ req = [r \in Reqs |-> IdleReq]
  /\ analytics = NoAnalytics

NextAnalytics ==
  \/ Startup
  \/ \E r \in Reqs : ChatSync(r)
  \/ \E r \in Reqs : LogInsert(r)
  \/ \E r \in Reqs : LogFail(r)
  \/ \E r \in Reqs : ChatReturn(r)
  \/ Analytics
  \/ AnalyticsFail

SpecAnalytics == InitAnalytics /\ [][NextAnalytics]_vars

\* ------------------------------------------------- vocabulary of the claims
Received(r) == req[r].pc # "idle"
Done(r) == req[r].pc = "done"
Returned(r) == req[r].outcome = "envelope"
Failed(r) == req[r].outcome = "error"
Quiescent == \A r \in Reqs : req[r].pc \in {"idle", "done"}

\* How many times the request f called the port
Calls(f, port) == Cardinality({i \in DOMAIN f.trace : f.trace[i] = port})

\* The call that f made to the port raised, which ended f
Raised(f, port) ==
  /\ f.exc # None /\ f.exc[1] # NotConfigured
  /\ f.trace # <<>> /\ f.trace[Len(f.trace)] = port

\* redis_client.get was called and answered (a value or nil)
LookupAnswered(f) == f.pc # "idle" /\ Calls(f, "get") = 1 /\ ~Raised(f, "get")

\* The rows the request r has written
RowsOf(r) == {i \in DOMAIN log : log[i].req = r}

\* C1 (as claimed): whenever the lookup of a request is answered while Redis
\* holds an entry under query.text, whatever string it holds, the request
\* does not call the inference backend, and an envelope it returns carries the
\* cache tag and the held value verbatim.
C1_AnyCachedValueServed ==
  \A r \in Reqs :
    (LookupAnswered(req[r]) /\ req[r].held # None) =>
      /\ Calls(req[r], "infer") = 0
      /\ Returned(r) => req[r].envelope = AgentResponse(req[r].held[1], CacheTag)

\* The case of C2: the lookup was answered with no entry under query.text and
\* the inference call of the request returned.
MissThenInferred(f) == LookupAnswered(f) /\ f.held = None /\ f.llm # None

\* C2: a request whose lookup is answered with no entry under query.text and
\* whose inference call returns has called inference exactly once; unless
\* SETEX raises, on leaving the synchronous part Redis holds the inference
\* result under query.text expiring 3600 seconds from now; and unless SETEX or
\* the INSERT raises, it ends by returning the inference result with the
\* inference tag.
C2_MissInfersOnceStoresReturns ==
  [][\A r \in Reqs :
       LET f == req'[r] IN
       MissThenInferred(f) =>
         /\ Calls(f, "infer") = 1
         /\ (req[r].pc = "idle" /\ ~Raised(f, "setex")) =>
               /\ Calls(f, "setex") = 1
               /\ cache'[f.query.text] = Some([val |-> f.llm[1], exp |-> now + TTL])
         /\ (f.pc = "done" /\ ~Raised(f, "setex") /\ ~Raised(f, "insert")) =>
               /\ f.outcome = "envelope"
               /\ f.envelope = AgentResponse(f.llm[1], LlmTag)]_vars

\* C2 witness: a miss that inferred a non-empty text, returned it, and whose
\* entry is in Redis with the full expiry.
C2_Witness ==
  \E r \in Reqs :
    /\ MissThenInferred(req[r]) /\ Returned(r)
    /\ req[r].envelope = AgentResponse("Hello there", LlmTag)
    /\ cache[req[r].query.text] = Some([val |-> "Hello there", exp |-> now + TTL])

\* The row a returned request must have left: its one row matches the query
\* and the envelope.
LoggedOnce(r) ==
  /\ Cardinality(RowsOf(r)) = 1
  /\ \A i \in RowsOf(r) :
       /\ log[i].user_id = req[r].query.user_id
       /\ log[i].input_text = req[r].query.text
       /\ log[i].ai_response = req[r].envelope.response
       /\ log[i].source = req[r].envelope.source

\* C3: every request that returned an envelope, hit or miss, has exactly one
\* row, with its user_id, its text and the envelope's response and source;
\* every row belongs to a request whose INSERT ran; and once no request is in
\* flight the log has as many rows as envelopes were returned.
C3_OneRecordPerEnvelope ==
  /\ \A r \in Reqs : Returned(r) => LoggedOnce(r)
  /\ \A r \in Reqs : Cardinality(RowsOf(r)) <= 1
  /\ \A r \in Reqs : RowsOf(r) # {} => req[r].pc = "logged" \/ Returned(r)
  /\ Quiescent => Len(log) = Cardinality({r \in Reqs : Returned(r)})

\* C3 witness: nothing in flight, a cache hit and a miss both answered and
\* logged.
C3_Witness ==
  /\ Quiescent
  /\ \E r1, r2 \in Reqs :
       /\ Returned(r1) /\ req[r1].envelope.source = CacheTag
       /\ Returned(r2) /\ req[r2].envelope.source = LlmTag
  /\ Len(log) = 2

\* Where the text f carries came from
FromCache(f) ==
  /\ LookupAnswered(f) /\ f.cached # None /\ f.response_text = f.cached[1]
  /\ Calls(f, "infer") = 0
FromInference(f) ==
  /\ Calls(f, "infer") = 1 /\ f.llm # None /\ f.response_text = f.llm[1]

\* C4: in every envelope and in every row, source is the cache tag exactly
\* when the text was read from Redis and inference was not called, the
\* inference tag exactly when the text is the result of the request's
\* inference call, and nothing else; the row and the envelope of a request
\* agree.
C4_SourceIsProvenance ==
  /\ \A r \in Reqs :
       Returned(r) =>
         /\ req[r].envelope.source \in {CacheTag, LlmTag}
         /\ req[r].envelope.response = req[r].response_text
         /\ req[r].envelope.source = CacheTag <=> FromCache(req[r])
         /\ req[r].envelope.source = LlmTag <=> FromInference(req[r])
  /\ \A i \in DOMAIN log :
       LET f == req[log[i].req] IN
         /\ log[i].source \in {CacheTag, LlmTag}
         /\ log[i].ai_response = f.response_text
         /\ log[i].source = CacheTag <=> FromCache(f)
         /\ log[i].source = LlmTag <=> FromInference(f)
         /\ Returned(log[i].req) => log[i].source = f.envelope.source

\* C4 witness: an envelope from the cache and an envelope from inference,
\* both logged.
C4_Witness ==
  \E r1, r2 \in Reqs :
    /\ Returned(r1) /\ FromCache(req[r1]) /\ RowsOf(r1) # {}
    /\ Returned(r2) /\ FromInference(req[r2]) /\ RowsOf(r2) # {}

\* The lookup of f, if one was made, raised nothing and found nothing to serve.
LookupMissed(f) == f.pc # "idle" /\ ~Raised(f, "get") /\ ~TruthyOpt(f.cached)

\* C5: with no inference client, a request whose lookup misses ends with a
\* 500 error, calls neither inference nor the INSERT, and leaves no row.
C5_UnconfiguredMissIsError ==
  \A r \in Reqs :
    (~groq_client /\ LookupMissed(req[r])) =>
      /\ Done(r) /\ Failed(r) /\ req[r].status = 500
      /\ Calls(req[r], "infer") = 0 /\ Calls(req[r], "insert") = 0
      /\ RowsOf(r) = {}

\* C5 witness: Redis answered nil, no inference client, the request failed.
C5_Witness ==
  \E r \in Reqs :
    /\ ~groq_client /\ LookupAnswered(req[r]) /\ req[r].cached = None
    /\ Failed(r) /\ req[r].exc = Some(NotConfigured)

\* C6: a request whose INSERT raised ends with a 500 error and no envelope,
\* and every request that returned an envelope has its row in the log.
C6_NoAnswerWithoutRecord ==
  \A r \in Reqs :
    /\ Raised(req[r], "insert") =>
         (Failed(r) /\ req[r].status = 500 /\ req[r].envelope = NoEnvelope)
    /\ Returned(r) => (RowsOf(r) # {} /\ Calls(req[r], "insert") = 1)

\* C6 witness: the text was resolved from the cache by one request and from
\* inference by another, and both INSERTs raised.
C6_Witness ==
  \E r1, r2 \in Reqs :
    /\ Raised(req[r1], "insert") /\ FromCache(req[r1]) /\ Failed(r1)
    /\ Raised(req[r2], "insert") /\ FromInference(req[r2]) /\ Failed(r2)

\* redis_client.get or redis_client.setex raised and the request ended with
\* that error
CacheFailureSurfaced(f) == f.outcome = "error" /\ f.exc[1] \in RedisErrors

\* C7 (as claimed): with Redis unreachable, no request ends with the cache's
\* error; a received request proceeds to inference, makes no store, and once
\* done with inference and INSERT succeeding has returned an envelope with the
\* inference tag.
C7_UnreachableCacheIsMiss ==
  \A r \in Reqs :
    (~redisReachable /\ Received(r)) =>
      /\ ~CacheFailureSurfaced(req[r])
      /\ Calls(req[r], "setex") = 0
      /\ (Done(r) /\ req[r].llm # None /\ ~Raised(req[r], "insert")) =>
            (Returned(r) /\ req[r].envelope.source = LlmTag)

\* C8 (as claimed): a request whose inference call returned and whose SETEX
\* raised does not end with that error; once done with the INSERT succeeding
\* it has its row and has returned the inference result with the inference tag.
C8_StoreFailureNonFatal ==
  \A r \in Reqs :
    (req[r].llm # None /\ Calls(req[r], "setex") = 1 /\ Done(r)
       /\ ~Raised(req[r], "insert")) =>
      /\ Returned(r) /\ RowsOf(r) # {}
      /\ req[r].envelope = AgentResponse(req[r].llm[1], LlmTag)

\* C9 (as claimed): if a request for text T returned inference result R with
\* the inference tag, a later request for T whose lookup is answered while
\* Redis holds R under T returns R with the cache tag, whatever R is.
C9_SecondIdenticalQueryHits ==
  \A r1, r2 \in Reqs :
    ( /\ r1 < r2
      /\ Returned(r1) /\ req[r1].envelope.source = LlmTag
      /\ req[r2].query.text = req[r1].query.text
      /\ LookupAnswered(req[r2]) /\ req[r2].held = Some(req[r1].envelope.response)
      /\ Returned(r2) ) =>
    req[r2].envelope = AgentResponse(req[r1].envelope.response, CacheTag)

\* C10 (as claimed): two requests ended by a failure of the same step, the
\* inference call or the INSERT, carry the same detail whatever the message
\* of the exception.
C10_DetailIndependentOfException ==
  \A r1, r2 \in Reqs :
    \A port \in {"infer", "insert"} :
      (Failed(r1) /\ Failed(r2) /\ Raised(req[r1], port) /\ Raised(req[r2], port)) =>
        req[r1].detail = req[r2].detail

Min(a, b) == IF a <= b THEN a ELSE b

\* C11: a successful /analytics response computed when the log held N rows
\* has min(10, N) rows, the i-th being the i-th most recently inserted row,
\* with strictly descending ids; and answering /analytics, successfully or
\* not, leaves the log as it was.
C11_AnalyticsNewestTen ==
  [][ /\ analytics' # analytics => log' = log
      /\ analytics'.status = 200 =>
           LET rows == analytics'.rows
               N == analytics'.at
           IN /\ Len(rows) = Min(10, N)
              /\ \A i \in DOMAIN rows : rows[i] = log'[N - i + 1]
              /\ \A i \in DOMAIN rows : i > 1 => rows[i].id < rows[i - 1].id ]_vars

\* C11 witness: a response cut to 10 rows out of more, the newest of them
\* written by a /chat request of this run.
C11_Witness ==
  /\ analytics.status = 200 /\ analytics.at > 10 /\ Len(analytics.rows) = 10
  /\ analytics.rows[1].req # 0

\* A /chat request has been received, or a /analytics request answered
Handling == (\E r \in Reqs : Received(r)) \/ analytics.status # 0

\* C12 (as claimed): in every state in which a request is being handled or
\* has been handled, the interactions table exists, also after a startup
\* whose connect or CREATE TABLE failed.
C12_SchemaBeforeTraffic == Handling => tableExists

\* C13 (as claimed): with no inference client the service starts and serves;
\* a request whose lookup is answered while Redis holds an entry under its
\* text never ends with the missing-configuration error, and once done with
\* the INSERT succeeding it has returned the held value with the cache tag and
\* has its row; the missing-configuration error ends only requests whose
\* lookup found no entry.
C13_NoCredentialHitsStillServed ==
  \A r \in Reqs :
    (~groq_client /\ LookupAnswered(req[r]) /\ req[r].held # None) =>
      /\ req[r].exc # Some(NotConfigured)
      /\ (Done(r) /\ ~Raised(req[r], "insert")) =>
            /\ Returned(r) /\ LoggedOnce(r)
            /\ req[r].envelope = AgentResponse(req[r].held[1], CacheTag)

\* The pipeline's order of backend calls
PipelineOrder == <<"get", "infer", "setex", "insert">>
Position(port) ==
  CASE port = "get" -> 1 [] port = "infer" -> 2 [] port = "setex" -> 3
    [] port = "insert" -> 4

\* The calls of t are in pipeline order, none made twice
InOrderOnce(t) == \A i \in 2..Len(t) : Position(t[i - 1]) < Position(t[i])

DbErrors == {NotConnected, NoTable, ConnectionLost}

\* C14: the backend calls of a request are made in the order lookup,
\* inference, store, INSERT, each at most once; an exception of the inference
\* call or of the INSERT is the request's last call and ends it in error; and
\* a request that is done never changes again.
C14_NoRetriesFixedOrder ==
  [][\A r \in Reqs :
       LET f == req'[r] IN
       f # req[r] =>
         /\ InOrderOnce(f.trace)
         /\ Calls(f, "infer") <= 1 /\ Calls(f, "insert") <= 1
         /\ (f.exc # None /\ f.exc[1] \in GroqErrors) =>
              /\ f.trace[Len(f.trace)] = "infer"
              /\ f.pc = "done" /\ f.outcome = "error"
         /\ (f.exc # None /\ f.exc[1] \in DbErrors) =>
              /\ f.trace[Len(f.trace)] = "insert"
              /\ f.pc = "done" /\ f.outcome = "error"
         /\ req[r].pc = "done" => f = req[r]]_vars

\* C14 witness: one request ended by its inference call right after the
\* lookup, another ended by its INSERT after all four calls.
C14_Witness ==
  \E r1, r2 \in Reqs :
    /\ Failed(r1) /\ req[r1].exc[1] \in GroqErrors /\ req[r1].trace = <<"get", "infer">>
    /\ Failed(r2) /\ req[r2].exc[1] \in DbErrors /\ req[r2].trace = PipelineOrder

\* C15 (as claimed): a request suspends at each backend call, so no step of a
\* request makes more than one backend call.
C15_SuspendsAtEveryCall ==
  [][\A r \in Reqs : Len(req'[r].trace) <= Len(req[r].trace) + 1]_vars

\* What Redis holds under exactly the key k
RawEntry(k) == IF cache[k] = None THEN None ELSE Some(cache[k][1].val)

\* C16: the request received in a step reads exactly the entry under its own
\* text, is served from the cache only if that entry holds the text it
\* serves, leaves the entries of every other text as they were, and stores
\* its inference result under its own text.
C16_KeyIsRawText ==
  [][\A r \in Reqs :
       (req[r].pc = "idle" /\ req'[r].pc # "idle") =>
         LET f == req'[r]
             T == f.query.text
         IN /\ LookupAnswered(f) => f.cached = RawEntry(T)
            /\ f.source = CacheTag =>
                 (cache[T] # None /\ cache[T][1].val = f.response_text)
            /\ \A k \in Texts \ {T} : cache'[k] = cache[k]
            /\ (f.llm # None /\ Calls(f, "setex") = 1 /\ ~Raised(f, "setex")) =>
                 cache'[T] = Some([val |-> f.llm[1], exp |-> now + TTL])]_vars

\* C16 witness: with "Hello there" held under "hi", the first request asked
\* "Hi", missed, and stored its own result under "Hi".
C16_Witness ==
  /\ req[1].query.text = "Hi" /\ LookupAnswered(req[1]) /\ req[1].cached = None
  /\ req[1].llm # None /\ ~Received(2)
  /\ cache["hi"] # None /\ cache["hi"][1].val = "Hello there"
  /\ cache["Hi"] # None /\ cache["Hi"][1].val = req[1].llm[1]

\* C17 (as claimed): a request that inferred, stored and then failed at the
\* INSERT is in error with no row; a later request for the same text whose
\* lookup is answered while Redis holds that entry, once done with its INSERT
\* succeeding, has returned the failed request's result with the cache tag.
C17_FailedRequestFeedsCache ==
  \A r1, r2 \in Reqs :
    ( /\ r1 < r2
      /\ req[r1].llm # None /\ Calls(req[r1], "setex") = 1
      /\ Failed(r1) /\ req[r1].exc[1] \in DbErrors
      /\ req[r2].query.text = req[r1].query.text
      /\ LookupAnswered(req[r2]) /\ req[r2].held = req[r1].llm ) =>
    /\ RowsOf(r1) = {}
    /\ (Done(r2) /\ ~Raised(req[r2], "insert")) =>
          /\ Returned(r2)
          /\ req[r2].envelope = AgentResponse(req[r1].llm[1], CacheTag)

\* C18: no envelope with the cache tag carries the empty text.  A request
\* received while Redis holds "" under its text is not served from the cache:
\* it goes on to the inference layer (one inference call, or the
\* missing-configuration error).  A request whose inference returned ""
\* stores "" under its text with the full expiry unless SETEX raises, and
\* unless SETEX or the INSERT raises it returns "" with the inference tag and
\* has its row.
C18_EmptyNeverServedFromCache ==
  [][\A r \in Reqs :
       LET f == req'[r]
           T == f.query.text
       IN /\ (f.outcome = "envelope" /\ f.envelope.source = CacheTag) =>
               f.envelope.response # ""
          /\ ( /\ req[r].pc = "idle" /\ LookupAnswered(f)
               /\ cache[T] # None /\ cache[T][1].val = "" ) =>
               /\ f.source # CacheTag
               /\ groq_client => Calls(f, "infer") = 1
               /\ ~groq_client => f.exc = Some(NotConfigured)
          /\ ( /\ req[r].pc = "idle" /\ f.llm = Some("")
               /\ Calls(f, "setex") = 1 /\ ~Raised(f, "setex") ) =>
               cache'[T] = Some([val |-> "", exp |-> now + TTL])
          /\ ( /\ f.llm = Some("") /\ f.pc = "done"
               /\ ~Raised(f, "setex") /\ ~Raised(f, "insert") ) =>
               /\ f.envelope = AgentResponse("", LlmTag)
               /\ (LoggedOnce(r))']_vars

\* C18 witness: inference returned "", it was stored and returned; the next
\* request for the same text read "" from Redis and called inference again.
C18_Witness ==
  \E r1, r2 \in Reqs :
    /\ r1 < r2 /\ req[r1].llm = Some("") /\ Calls(req[r1], "setex") = 1 /\ Returned(r1)
    /\ req[r2].query.text = req[r1].query.text
    /\ req[r2].cached = Some("") /\ Calls(req[r2], "infer") = 1 /\ Returned(r2)

\* C19: the step of a request served from the cache leaves Redis as it was
\* and makes no SETEX; an entry changes only by dropping out when the clock
\* reaches its expiry, never earlier or later, or by being written by a
\* request that inferred, with expiry 3600 seconds after that step.
C19_HitsDoNotRefresh ==
  [][ /\ \A r \in Reqs :
           (req[r].pc = "idle" /\ FromCache(req'[r])) =>
             (cache' = cache /\ Calls(req'[r], "setex") = 0)
      /\ \A k \in Texts :
           cache[k] # None =>
             \/ cache'[k] = cache[k] /\ now' < cache[k][1].exp
             \/ cache'[k] = None /\ now' >= cache[k][1].exp
             \/ \E r \in Reqs :
                  /\ req[r].pc = "idle" /\ req'[r].llm # None
                  /\ req'[r].query.text = k
                  /\ cache'[k] = Some([val |-> req'[r].llm[1], exp |-> now + TTL]) ]_vars

\* C19 witness: an entry written by a miss at time 0 was hit by a later
\* request and is gone at time 3600.
C19_Witness ==
  \E r1, r2 \in Reqs :
    /\ r1 < r2 /\ req[r1].llm # None /\ Calls(req[r1], "setex") = 1
    /\ ~Raised(req[r1], "setex")
    /\ req[r2].query.text = req[r1].query.text
    /\ FromCache(req[r2]) /\ req[r2].cached = req[r1].llm
    /\ now = TTL /\ cache[req[r1].query.text] = None
====
